---- MODULE Spec2Model ----
(***************************************************************************)
(* A model of sftp-promises (src/index.js): the promise wrapper cmd, its   *)
(* specialisations sftpCmd / execCmd, and the operations built on them.    *)
(* The ssh2 transport is the environment: it delivers lifecycle signals    *)
(* (ready, end, error), I/O callbacks and stream events in any order.      *)
(* One action is one callback of the source, run to completion; the        *)
(* .then(resolved, rejected) reaction is a microtask and runs before the   *)
(* next transport event.                                                   *)
(***************************************************************************)
EXTENDS Integers, Sequences, FiniteSets, TLC

VARIABLES
    calls,          \* per call: the closure state of one cmd() invocation
    closeCalls,     \* per connection: how often the core ran conn.end(); conn.destroy()
    connectCalls,   \* per connection: how often the core ran conn.connect()
    file            \* the bytes of the remote file the buffer operations work on

vars == <<calls, closeCalls, connectCalls, file>>

\* ---------------------------------------------------------------- bounds

MaxFileLen == 2

\* The call slots: two calls may be in flight at once.
Calls == {1, 2}
\* Connection 0 is the caller's session; connection c is the Client that call c creates.
Session == 0
Conns == {Session} \cup Calls
\* File bytes; 0 is what Buffer.alloc / buffer.fill(0) leave in a buffer.
Bytes == {1, 2}
Files == UNION {[1..n -> Bytes] : n \in 0..MaxFileLen}
ExitCodes == {0, 1, 2}
StatTypes == {"directory", "file", "other"}

\* ---------------------------------------------------------------- operations

ExecOps == {"execCmd", "mkdirp"}
VerbOps == {"get", "put", "rm", "mv", "rmdir", "mkdir", "realpath", "pwd"}
StatOps == {"ls", "stat", "getStream", "createReadStream"}
BufferOps == {"getBuffer", "putBuffer"}
StreamOps == {"getStream", "putStream", "createReadStream", "createWriteStream"}
\* The operations that pass persist = true to sftpCmd.
PersistOps == {"createReadStream", "createWriteStream"}
AllOps == ExecOps \cup VerbOps \cup StatOps \cup BufferOps \cup StreamOps

\* ---------------------------------------------------------------- values

Val(k) == [kind |-> k, buf |-> <<>>]
BufVal(b) == [kind |-> "buffer", buf |-> b]
Pending == [st |-> "pending", val |-> Val("none")]
NoReq == [off |-> 0, len |-> 0, pos |-> 0]

\* Buffer.alloc(n)
Alloc(n) == [i \in 1..n |-> 0]

Min(a, b) == IF a < b THEN a ELSE b

\* The count of reads a call issued is kept up to this number; parity keeps
\* whether the count of reads issued after the first is odd.
MaxReads == MaxFileLen + 1

NewCall ==
    [op |-> "none", session |-> FALSE, persist |-> FALSE, pc |-> "idle",
     inner |-> Pending, outer |-> Pending,
     streamOk |-> TRUE, buffer |-> <<>>, bytes |-> 0, req |-> NoReq,
     handle |-> "none", execCalls |-> 0,
     \* history of the call, read only by the properties
     late |-> FALSE, cause |-> "none", fail |-> "none", atSettle |-> 0,
     total |-> 0, reads |-> 0, after |-> {}, exitCode |-> -1,
     sftpFailed |-> FALSE, sig |-> "none", io |-> 0, readErr |-> FALSE,
     parity |-> 0]

\* Calls without a session all using the Client of the first call.
ConnOfShared(c) == IF calls[c].session THEN Session ELSE 1

ConnOf(c) == IF calls[c].session THEN Session ELSE c

\* ---------------------------------------------------------------- the promise

\* A settle that ignores whether the promise is already settled.
settleAlways(r, st, v, ev) ==
    [r EXCEPT !.inner = [st |-> st, val |-> v], !.cause = ev,
              !.late = (r.inner.st # "pending")]

\* resolve / reject of `new Promise`: the first call settles, later calls do nothing.
settle(r, st, v, ev) ==
    IF r.inner.st = "pending"
    THEN [r EXCEPT !.inner = [st |-> st, val |-> v], !.cause = ev]
    ELSE [r EXCEPT !.late = TRUE]

resolve(r, v, ev) == settle(r, "resolved", v, ev)

\* The transport (or a validation of the code) reports failure e to a pending call.
failure(r, e) ==
    IF r.inner.st = "pending" /\ r.fail = "none" THEN [r EXCEPT !.fail = e] ELSE r

reject(r, e, ev) == settle(failure(r, e), "rejected", Val(e), ev)

\* TRUE while a settled promise's .then reaction has not run yet.
ReactionPending(c) == calls[c].inner.st # "pending" /\ calls[c].outer.st = "pending"
NoReaction == \A c \in Calls : ~ReactionPending(c)

Close(cc, k) == [cc EXCEPT ![k] = @ + 1]

\* ---------------------------------------------------------------- cmd

\* handleConn without the test of session.
handleConnNoSession(r, failed) == ~r.persist \/ failed

\* handleConn closing only after a failure.
handleConnFailedOnly(r, failed) == ~r.session /\ failed

\* handleConn without the test of persist.
handleConnNoPersist(r, failed) == ~r.session

\* handleConn: TRUE when it runs conn.end(); conn.destroy()
handleConn(r, failed) == ~r.session /\ (~r.persist \/ failed)

\* cmdCB as sftpCmd and execCmd build it: open the sub-channel, or run the command.
cmdCB(r) ==
    IF r.op \in ExecOps
    THEN [r EXCEPT !.pc = "exec", !.execCalls = @ + 1]
    ELSE [r EXCEPT !.pc = "sftp"]

\* What the caller may pass as persist: only execCmd takes it from its caller.
PersistArgs(o) ==
    IF o \in PersistOps THEN {TRUE} ELSE IF o = "execCmd" THEN BOOLEAN ELSE {FALSE}
BufferArgs(o) == IF o = "putBuffer" THEN Files ELSE {<<>>}
StreamArgs(o) == IF o \in {"getStream", "putStream"} THEN BOOLEAN ELSE {TRUE}

\* A public operation is called: cmd() builds the promise and either runs the body
\* on the caller's session or wires the listeners of a new Client and connects it.
\* s: a session is supplied; p: persist; b: the buffer of putBuffer; ok: the
\* stream given to getStream / putStream is writable / readable.
Start(c, o, s, p, b, ok) ==
    /\ calls[c].pc = "idle"
    /\ \A d \in Calls : d < c => calls[d].pc # "idle"
    /\ LET r == [NewCall EXCEPT !.op = o, !.session = s, !.persist = p,
                                !.buffer = b, !.streamOk = ok,
                                !.after = {d \in Calls : calls[d].outer.st # "pending"}]
       IN  IF s
           THEN /\ calls' = [calls EXCEPT ![c] = cmdCB(r)]
                /\ UNCHANGED connectCalls
           ELSE /\ calls' = [calls EXCEPT ![c] = [r EXCEPT !.pc = "connecting"]]
                /\ connectCalls' = [connectCalls EXCEPT ![c] = @ + 1]
    /\ UNCHANGED <<closeCalls, file>>

\* A rejected handler that returns err instead of Promise.reject(err).
passOnReturned(r) == [st |-> "resolved", val |-> r.inner.val]

\* What resolved / rejected return: Promise.resolve(val) / Promise.reject(err).
passOn(r) == r.inner

\* .then(resolved, rejected): teardown, then the outcome is passed on unchanged.
ThenReaction(c) ==
    /\ ReactionPending(c)
    /\ LET r == calls[c]
           cc == IF handleConn(r, r.inner.st = "rejected")
                 THEN Close(closeCalls, ConnOf(c)) ELSE closeCalls
       IN  /\ closeCalls' = cc
           /\ calls' = [calls EXCEPT ![c] = [r EXCEPT !.outer = passOn(r),
                                                      !.atSettle = cc[ConnOf(c)]]]
    /\ UNCHANGED <<connectCalls, file>>

\* The listeners cmd registers on the Client it created.
Listening(c) == calls[c].pc # "idle" /\ ~calls[c].session

\* conn.on('ready')
ConnReady(c) ==
    /\ NoReaction
    /\ Listening(c)
    /\ calls[c].pc = "connecting"
    /\ calls' = [calls EXCEPT ![c] = cmdCB(@)]
    /\ UNCHANGED <<closeCalls, connectCalls, file>>

\* The transport emits lifecycle signal s; a pending call's first one is kept.
signal(r, s) ==
    IF r.inner.st = "pending" /\ r.sig = "none" THEN [r EXCEPT !.sig = s] ELSE r

\* An end listener that rejects like the error listener.
onEndAsError(r) == reject(r, "connError", "end")

\* conn.on('end', ...)
onEnd(r) == reject(r, "Connection closed", "end")

\* conn.on('error', ...)
onError(r) == reject(r, "connError", "error")

\* conn.on('end')
ConnEnd(c) ==
    /\ NoReaction
    /\ Listening(c)
    /\ calls' = [calls EXCEPT ![c] = onEnd(signal(@, "end"))]
    /\ UNCHANGED <<closeCalls, connectCalls, file>>

\* conn.on('error')
ConnError(c) ==
    /\ NoReaction
    /\ Listening(c)
    /\ calls' = [calls EXCEPT ![c] = onError(signal(@, "error"))]
    /\ UNCHANGED <<closeCalls, connectCalls, file>>

\* ---------------------------------------------------------------- execCmd

\* callback of conn.exec
ExecCb(c) ==
    /\ NoReaction
    /\ calls[c].pc = "exec"
    /\ \E err \in BOOLEAN :
         calls' = [calls EXCEPT ![c] =
                     IF err THEN reject([@ EXCEPT !.pc = "done"], "execError", "exec")
                     ELSE [@ EXCEPT !.pc = "exit"]]
    /\ UNCHANGED <<closeCalls, connectCalls, file>>

\* An exit handler that takes only exit code 1 for a failure.
onExitOnlyOne(r, exitCode) ==
    IF exitCode = 1
    THEN reject(r, "none zero exit code", "exit")
    ELSE resolve(r, Val("true"), "exit")

\* The exit handler of execCmd.
onExit(r, exitCode) ==
    IF exitCode # 0
    THEN reject(r, "none zero exit code", "exit")
    ELSE resolve(r, Val("true"), "exit")

\* stream.on('exit')
ExitEvent(c) ==
    /\ NoReaction
    /\ calls[c].pc = "exit"
    /\ \E exitCode \in ExitCodes :
         calls' = [calls EXCEPT ![c] =
                     onExit([@ EXCEPT !.pc = "done", !.exitCode = exitCode], exitCode)]
    /\ UNCHANGED <<closeCalls, connectCalls, file>>

\* ---------------------------------------------------------------- sftp callbacks

\* The sub-channel calls back: one call on it is no longer outstanding.
delivered(r) == [r EXCEPT !.io = @ - 1]

\* `if (err) { return reject(err) }` of a callback; ev names the callback.
rejectWith(r, e, ev) == reject([r EXCEPT !.pc = "done"], e, ev)

\* The (err, sftp) callbacks the operations hand to conn.sftp.
lsCmd(r, err) ==
    IF err THEN rejectWith(r, "sftpError", "sftp") ELSE [r EXCEPT !.pc = "stat", !.io = @ + 1]

statCmd(r, err) ==
    IF err THEN rejectWith(r, "sftpError", "sftp") ELSE [r EXCEPT !.pc = "stat", !.io = @ + 1]

\* A getBufferCmd without `if (err) { return reject(err) }`.
getBufferCmdNoErrCheck(r, err) == [r EXCEPT !.pc = "open", !.io = @ + 1]

getBufferCmd(r, err) ==
    IF err THEN rejectWith(r, "sftpError", "sftp") ELSE [r EXCEPT !.pc = "open", !.io = @ + 1]

putBufferCmd(r, err) ==
    IF err THEN rejectWith(r, "sftpError", "sftp") ELSE [r EXCEPT !.pc = "open", !.io = @ + 1]

\* getCmd, putCmd, rmCmd, mvCmd, rmdirCmd, mkdirCmd, realpathCmd: one call each.
verbCmd(r, err) ==
    IF err THEN rejectWith(r, "sftpError", "sftp") ELSE [r EXCEPT !.pc = "verb", !.io = @ + 1]

getStreamCmd(r, err) ==
    IF ~r.streamOk THEN rejectWith(r, "Stream must be a writable stream", "validate")
    ELSE IF err THEN rejectWith(r, "sftpError", "sftp")
    ELSE [r EXCEPT !.pc = "stat", !.io = @ + 1]

\* thr: sftp.createWriteStream throws
putStreamCmd(r, err, thr) ==
    IF ~r.streamOk THEN rejectWith(r, "Stream must be a readable stream", "validate")
    ELSE IF err THEN rejectWith(r, "sftpError", "sftp")
    ELSE IF thr THEN rejectWith(r, "createStreamError", "create")
    ELSE [r EXCEPT !.pc = "strm_live"]

createReadStreamCmd(r, err) ==
    IF err THEN rejectWith(r, "sftpError", "sftp") ELSE [r EXCEPT !.pc = "stat", !.io = @ + 1]

createWriteStreamCmd(r, err, thr) ==
    IF err THEN rejectWith(r, "sftpError", "sftp")
    ELSE IF thr THEN rejectWith(r, "createStreamError", "create")
    ELSE [r EXCEPT !.pc = "strm_live"]

\* Only the operations that create a stream in this callback can see it throw.
ThrowArgs(r, err) ==
    IF r.op \in {"putStream", "createWriteStream"} /\ ~err THEN BOOLEAN ELSE {FALSE}

\* sftpCmd: conn.sftp(compiledCallBack) calls back with (err, sftp)
SftpCb(c) ==
    /\ NoReaction
    /\ calls[c].pc = "sftp"
    /\ \E err \in BOOLEAN : \E thr \in ThrowArgs(calls[c], err) :
         LET r == [calls[c] EXCEPT !.sftpFailed = err]
             o == r.op
         IN  calls' = [calls EXCEPT ![c] =
                 CASE o = "ls" -> lsCmd(r, err)
                   [] o = "stat" -> statCmd(r, err)
                   [] o = "getBuffer" -> getBufferCmd(r, err)
                   [] o = "putBuffer" -> putBufferCmd(r, err)
                   [] o = "getStream" -> getStreamCmd(r, err)
                   [] o = "putStream" -> putStreamCmd(r, err, thr)
                   [] o = "createReadStream" -> createReadStreamCmd(r, err)
                   [] o = "createWriteStream" -> createWriteStreamCmd(r, err, thr)
                   [] OTHER -> verbCmd(r, err)]
    /\ UNCHANGED <<closeCalls, connectCalls, file>>

\* The sftp.stat callbacks of ls, stat, getStream and createReadStream.
\* type: what stat.isDirectory() / isFile() say; thr: sftp.createReadStream throws.
onStat(r, err, type, thr) ==
    IF err THEN rejectWith(r, "ioError", "stat")
    ELSE CASE r.op = "ls" ->
                IF type = "directory" THEN [r EXCEPT !.pc = "readdir", !.io = @ + 1]
                ELSE resolve([r EXCEPT !.pc = "done"], Val(type), "stat")
           [] r.op = "stat" -> resolve([r EXCEPT !.pc = "done"], Val(type), "stat")
           [] OTHER ->
                IF thr THEN rejectWith(r, "createStreamError", "create")
                ELSE [r EXCEPT !.pc = "strm_live"]

StatCb(c) ==
    /\ NoReaction
    /\ calls[c].pc = "stat"
    /\ \E err \in BOOLEAN :
       \E type \in (IF ~err /\ calls[c].op \in {"ls", "stat"} THEN StatTypes ELSE {"file"}) :
       \E thr \in (IF ~err /\ calls[c].op \in StreamOps THEN BOOLEAN ELSE {FALSE}) :
         calls' = [calls EXCEPT ![c] = onStat(delivered(@), err, type, thr)]
    /\ UNCHANGED <<closeCalls, connectCalls, file>>

\* callback of sftp.readdir in ls
ReaddirCb(c) ==
    /\ NoReaction
    /\ calls[c].pc = "readdir"
    /\ \E err \in BOOLEAN :
         calls' = [calls EXCEPT ![c] =
                     IF err THEN rejectWith(delivered(@), "ioError", "readdir")
                     ELSE resolve([@ EXCEPT !.pc = "done", !.io = @ - 1],
                                  Val("entries"), "readdir")]
    /\ UNCHANGED <<closeCalls, connectCalls, file>>

\* callback of fastGet, fastPut, unlink, rename, rmdir, mkdir, realpath
VerbCb(c) ==
    /\ NoReaction
    /\ calls[c].pc = "verb"
    /\ \E err \in BOOLEAN :
         calls' = [calls EXCEPT ![c] =
                     IF err THEN rejectWith(delivered(@), "ioError", "verb")
                     ELSE resolve([@ EXCEPT !.pc = "done", !.io = @ - 1],
                                  Val(IF @.op \in {"realpath", "pwd"} THEN "rpath" ELSE "true"),
                                  "verb")]
    /\ UNCHANGED <<closeCalls, connectCalls, file>>

\* ---------------------------------------------------------------- getBuffer / putBuffer

\* What the transport does for sftp.read(handle, buffer, off, len, pos, cb): it copies
\* k bytes of the file from position pos into the buffer from offset off.
ReadInto(buffer, f, req, k) ==
    [i \in 1..Len(buffer) |->
        IF i > req.off /\ i <= req.off + k /\ req.pos + (i - req.off) <= Len(f)
        THEN f[req.pos + (i - req.off)]
        ELSE buffer[i]]

\* The byte counts a read may report: a short read of at least one byte while the
\* file has bytes at the position, 0 at the end of the file.
ReadCounts(f, req) ==
    LET most == Min(req.len, Len(f) - req.pos)
    IN  IF most >= 1 THEN 1..most ELSE {0}

\* What the transport does for sftp.write(handle, buffer, off, len, pos, cb) when it
\* stores k bytes: the callback carries only err, so a short write is not reported.
WriteFrom(f, buffer, req, k) ==
    LET n == IF req.pos + k > Len(f) THEN req.pos + k ELSE Len(f)
    IN  [i \in 1..n |->
            IF i > req.pos /\ i <= req.pos + k THEN buffer[req.off + (i - req.pos)]
            ELSE IF i <= Len(f) THEN f[i] ELSE 0]

WriteCounts(req) == IF req.len >= 1 THEN 1..req.len ELSE {0}

\* The sftp.open callbacks: getBuffer goes on to fstat, putBuffer to its one write.
onOpen(r, err) ==
    IF err THEN rejectWith(r, "ioError", "open")
    ELSE IF r.op = "getBuffer" THEN [r EXCEPT !.pc = "fstat", !.io = @ + 1, !.handle = "open"]
    ELSE [r EXCEPT !.pc = "write", !.io = @ + 1, !.handle = "open",
                   !.req = [off |-> 0, len |-> Len(r.buffer), pos |-> 0]]

\* Opening with mode 'w' truncates the remote file.
OpenCb(c) ==
    /\ NoReaction
    /\ calls[c].pc = "open"
    /\ \E err \in BOOLEAN :
         /\ calls' = [calls EXCEPT ![c] = onOpen(delivered(@), err)]
         /\ file' = IF ~err /\ calls[c].op = "putBuffer" THEN <<>> ELSE file
    /\ UNCHANGED <<closeCalls, connectCalls>>

\* An fstat callback without the branch for the empty file.
onFstatNoZeroCheck(r, err, size) ==
    IF err THEN rejectWith(r, "ioError", "fstat")
    ELSE [r EXCEPT !.pc = "read", !.io = @ + 1, !.bytes = size, !.buffer = Alloc(size),
                   !.req = [off |-> 0, len |-> size, pos |-> 0], !.reads = 1]

\* The sftp.fstat callback of getBuffer: allocate, resolve an empty file at once,
\* else issue the first read.
onFstat(r, err, size) ==
    IF err THEN rejectWith(r, "ioError", "fstat")
    ELSE IF size = 0
    THEN resolve([r EXCEPT !.pc = "done", !.bytes = 0, !.buffer = Alloc(0)],
                 BufVal(Alloc(0)), "fstat")
    ELSE [r EXCEPT !.pc = "read", !.io = @ + 1, !.bytes = size, !.buffer = Alloc(size),
                   !.req = [off |-> 0, len |-> size, pos |-> 0], !.reads = 1]

FstatCb(c) ==
    /\ NoReaction
    /\ calls[c].pc = "fstat"
    /\ \E err \in BOOLEAN :
         calls' = [calls EXCEPT ![c] = onFstat(delivered(@), err, Len(file))]
    /\ UNCHANGED <<closeCalls, connectCalls, file>>

\* A read callback that reads every chunk into the start of the buffer.
cbFixedOffset(r, err, readBytes) ==
    IF err THEN rejectWith(r, "ioError", "read")
    ELSE LET position == r.req.pos + readBytes
             bytes == r.bytes - readBytes
         IN  IF bytes < 1
             THEN [r EXCEPT !.pc = "close", !.io = @ + 1, !.bytes = bytes, !.req = NoReq]
             ELSE [r EXCEPT !.bytes = bytes, !.reads = Min(@ + 1, MaxReads), !.parity = 1 - @, !.io = @ + 1,
                            !.req = [off |-> 0, len |-> bytes, pos |-> position]]

\* A read callback that issues the next read without waiting for its callback.
cbReadAhead(r, err, readBytes) ==
    IF err THEN rejectWith(r, "ioError", "read")
    ELSE LET position == r.req.pos + readBytes
             bytes == r.bytes - readBytes
         IN  IF bytes < 1
             THEN [r EXCEPT !.pc = "close", !.io = @ + 1, !.bytes = bytes, !.req = NoReq]
             ELSE [r EXCEPT !.bytes = bytes, !.reads = Min(@ + 1, MaxReads), !.parity = 1 - @, !.io = @ + 2,
                            !.req = [off |-> position, len |-> bytes, pos |-> position]]

\* A read callback that goes on to close the file when the read reports an error.
cbIgnoreErr(r, err, readBytes) ==
    LET position == r.req.pos + readBytes
        bytes == r.bytes - readBytes
    IN  IF err \/ bytes < 1
        THEN [r EXCEPT !.pc = "close", !.io = @ + 1, !.bytes = bytes, !.req = NoReq]
        ELSE [r EXCEPT !.bytes = bytes, !.reads = Min(@ + 1, MaxReads), !.parity = 1 - @, !.io = @ + 1,
                       !.req = [off |-> position, len |-> bytes, pos |-> position]]

\* cb of getBuffer: r.buffer already holds what the transport read; the transport
\* passes back the position the read was made at (r.req.pos).
cb(r, err, readBytes) ==
    IF err THEN rejectWith(r, "ioError", "read")
    ELSE LET position == r.req.pos + readBytes
             bytes == r.bytes - readBytes
         IN  IF bytes < 1
             THEN [r EXCEPT !.pc = "close", !.io = @ + 1, !.bytes = bytes, !.req = NoReq]
             ELSE [r EXCEPT !.bytes = bytes, !.reads = Min(@ + 1, MaxReads), !.parity = 1 - @, !.io = @ + 1,
                            !.req = [off |-> position, len |-> bytes, pos |-> position]]

ReadCb(c) ==
    /\ NoReaction
    /\ calls[c].pc = "read"
    /\ \/ calls' = [calls EXCEPT ![c] = cb([@ EXCEPT !.io = @ - 1, !.readErr = TRUE], TRUE, 0)]
       \/ \E k \in ReadCounts(file, calls[c].req) :
            calls' = [calls EXCEPT ![c] =
                        cb([@ EXCEPT !.buffer = ReadInto(@, file, calls[c].req, k),
                                     !.total = @ + k, !.io = @ - 1], FALSE, k)]
    /\ UNCHANGED <<closeCalls, connectCalls, file>>

\* The sftp.write callback of putBuffer: one write, then close.
onWrite(r, err) ==
    IF err THEN rejectWith(r, "ioError", "write")
    ELSE [r EXCEPT !.pc = "close", !.io = @ + 1, !.req = NoReq]

WriteCb(c) ==
    /\ NoReaction
    /\ calls[c].pc = "write"
    /\ \/ /\ calls' = [calls EXCEPT ![c] = onWrite(delivered(@), TRUE)]
          /\ UNCHANGED file
       \/ \E k \in WriteCounts(calls[c].req) :
            /\ file' = WriteFrom(file, calls[c].buffer, calls[c].req, k)
            /\ calls' = [calls EXCEPT ![c] = onWrite([@ EXCEPT !.total = k, !.io = @ - 1], FALSE)]
    /\ UNCHANGED <<closeCalls, connectCalls>>

\* The sftp.close callbacks of getBuffer and putBuffer.
onClose(r, err) ==
    IF err THEN rejectWith(r, "ioError", "close")
    ELSE IF r.op = "getBuffer"
    THEN resolve([r EXCEPT !.pc = "done", !.handle = "closed"], BufVal(r.buffer), "close")
    ELSE resolve([r EXCEPT !.pc = "done", !.handle = "closed"], Val("true"), "close")

CloseCb(c) ==
    /\ NoReaction
    /\ calls[c].pc = "close"
    /\ \E err \in BOOLEAN :
         calls' = [calls EXCEPT ![c] = onClose(delivered(@), err)]
    /\ UNCHANGED <<closeCalls, connectCalls, file>>

\* ---------------------------------------------------------------- streams

\* `if (!session) { conn.end(); conn.destroy() }` of the close and error handlers
\* of createReadStream and createWriteStream: TRUE when the connection is closed.
\* Stream handlers that leave the connection to the caller.
streamCleanupNever(r) == FALSE

streamCleanup(r) == ~r.session

CleanupBy(c) ==
    IF streamCleanup(calls[c]) THEN Close(closeCalls, ConnOf(c)) ELSE closeCalls

\* stream.on('open'): putStream starts piping, createWriteStream resolves the stream.
onStreamOpen(r) ==
    IF r.op = "createWriteStream"
    THEN resolve([r EXCEPT !.pc = "strm_ready"], Val("stream"), "open")
    ELSE [r EXCEPT !.pc = "strm_ready"]

StreamOpen(c) ==
    /\ NoReaction
    /\ calls[c].op \in {"putStream", "createWriteStream"}
    /\ calls[c].pc = "strm_live"
    /\ calls' = [calls EXCEPT ![c] = onStreamOpen(@)]
    /\ UNCHANGED <<closeCalls, connectCalls, file>>

\* stream.on('readable') of createReadStream: resolve(stream); stream.close()
onReadable(r) == resolve([r EXCEPT !.pc = "strm_ready"], Val("stream"), "readable")

StreamReadable(c) ==
    /\ NoReaction
    /\ calls[c].op = "createReadStream"
    /\ calls[c].pc \in {"strm_live", "strm_ready"}
    /\ calls' = [calls EXCEPT ![c] = onReadable(@)]
    /\ UNCHANGED <<closeCalls, connectCalls, file>>

\* stream.on('end') of getStream
StreamEnd(c) ==
    /\ NoReaction
    /\ calls[c].op = "getStream"
    /\ calls[c].pc = "strm_live"
    /\ calls' = [calls EXCEPT ![c] = resolve([@ EXCEPT !.pc = "done"], Val("true"), "end")]
    /\ UNCHANGED <<closeCalls, connectCalls, file>>

\* stream.on('finish') of putStream
StreamFinish(c) ==
    /\ NoReaction
    /\ calls[c].op = "putStream"
    /\ calls[c].pc = "strm_ready"
    /\ calls' = [calls EXCEPT ![c] = resolve([@ EXCEPT !.pc = "done"], Val("true"), "finish")]
    /\ UNCHANGED <<closeCalls, connectCalls, file>>

\* stream.on('error'): getStream, putStream and createWriteStream reject with the
\* error; createReadStream's handler takes no error and only cleans up.
onStreamError(r) ==
    CASE r.op = "createReadStream" -> failure([r EXCEPT !.pc = "strm_err"], "streamError")
      [] r.op = "createWriteStream" ->
            reject([r EXCEPT !.pc = "strm_err"], "streamError", "streamError")
      [] OTHER -> rejectWith(r, "streamError", "streamError")

StreamError(c) ==
    /\ NoReaction
    /\ calls[c].op \in StreamOps
    /\ calls[c].pc \in {"strm_live", "strm_ready"}
    /\ calls' = [calls EXCEPT ![c] = onStreamError(@)]
    /\ closeCalls' = IF calls[c].op \in PersistOps THEN CleanupBy(c) ELSE closeCalls
    /\ UNCHANGED <<connectCalls, file>>

\* stream.on('close') of createReadStream and createWriteStream; a stream closes
\* after it was closed or ended, or after its error.
StreamClose(c) ==
    /\ NoReaction
    /\ calls[c].op \in PersistOps
    /\ calls[c].pc \in {"strm_ready", "strm_err"}
    /\ calls' = [calls EXCEPT ![c].pc = "strm_closed"]
    /\ closeCalls' = CleanupBy(c)
    /\ UNCHANGED <<connectCalls, file>>

\* ---------------------------------------------------------------- specifications

\* No call was made yet.
InitCalls ==
    /\ calls = [c \in Calls |-> NewCall]
    /\ closeCalls = [k \in Conns |-> 0]
    /\ connectCalls = [k \in Conns |-> 0]

Init == InitCalls /\ file \in Files

\* What the transport and the promise machinery do for a call in flight.
Lifecycle(c) ==
    \/ ThenReaction(c)
    \/ ConnReady(c)
    \/ ConnEnd(c)
    \/ ConnError(c)
    \/ SftpCb(c)

\* One call of any operation, with or without a session.
Next ==
    \/ \E o \in AllOps : \E s \in BOOLEAN : \E p \in PersistArgs(o) :
       \E b \in BufferArgs(o) : \E ok \in StreamArgs(o) : Start(1, o, s, p, b, ok)
    \/ \E c \in Calls :
        \/ Lifecycle(c)
        \/ ExecCb(c) \/ ExitEvent(c)
        \/ StatCb(c) \/ ReaddirCb(c) \/ VerbCb(c)
        \/ OpenCb(c) \/ FstatCb(c) \/ ReadCb(c) \/ WriteCb(c) \/ CloseCb(c)
        \/ StreamOpen(c) \/ StreamReadable(c) \/ StreamEnd(c) \/ StreamFinish(c)
        \/ StreamError(c) \/ StreamClose(c)

Spec == Init /\ [][Next]_vars

\* Two calls in flight at once, each with or without the caller's session.
SharedOps == {"rm", "createReadStream", "createWriteStream"}

NextShared ==
    \/ \E c \in Calls : \E o \in SharedOps : \E s \in BOOLEAN : \E p \in PersistArgs(o) :
         Start(c, o, s, p, <<>>, TRUE)
    \/ \E c \in Calls :
        \/ Lifecycle(c)
        \/ StatCb(c) \/ VerbCb(c)
        \/ StreamOpen(c) \/ StreamReadable(c) \/ StreamError(c) \/ StreamClose(c)

\* None of SharedOps reads or writes the remote file.
InitShared == InitCalls /\ file = <<>>

SpecShared == InitShared /\ [][NextShared]_vars

\* Two buffer transfers on the same remote file, both on the caller's session.
NextRoundTrip ==
    \/ \E c \in Calls : \E o \in BufferOps : \E b \in BufferArgs(o) :
         Start(c, o, TRUE, FALSE, b, TRUE)
    \/ \E c \in Calls :
        \/ ThenReaction(c) \/ SftpCb(c)
        \/ OpenCb(c) \/ FstatCb(c) \/ ReadCb(c) \/ WriteCb(c) \/ CloseCb(c)

SpecRoundTrip == Init /\ [][NextRoundTrip]_vars

\* getBuffer on a connection of its own while putBuffer writes the same remote
\* file on the caller's session.
NextLive ==
    \/ Start(1, "getBuffer", FALSE, FALSE, <<>>, TRUE)
    \/ \E b \in Files : Start(2, "putBuffer", TRUE, FALSE, b, TRUE)
    \/ \E c \in Calls :
        \/ Lifecycle(c)
        \/ OpenCb(c) \/ FstatCb(c) \/ ReadCb(c) \/ WriteCb(c) \/ CloseCb(c)

\* The transport signals ready while the Client is connecting, every call issued
\* on a sub-channel gets its callback, and every promise reaction runs. The end
\* and error signals may come at any time or never.
FairLive ==
    \A c \in Calls :
        /\ WF_vars(ThenReaction(c)) /\ WF_vars(ConnReady(c)) /\ WF_vars(SftpCb(c))
        /\ WF_vars(OpenCb(c)) /\ WF_vars(FstatCb(c)) /\ WF_vars(ReadCb(c))
        /\ WF_vars(WriteCb(c)) /\ WF_vars(CloseCb(c))

SpecLive == Init /\ [][NextLive]_vars /\ FairLive

\* ---------------------------------------------------------------- properties

Started(c) == calls[c].op # "none"
Settled(c) == calls[c].outer.st # "pending"
Resolved(c) == calls[c].outer.st = "resolved"
Rejected(c) == calls[c].outer.st = "rejected"
\* The call was settled by a lifecycle signal of its connection.
BySignal(c) == calls[c].cause \in {"end", "error"}

\* C1: a promise that is settled keeps its outcome: no later resolve or reject, of
\* a lifecycle signal or of an I/O callback, changes the inner promise, and the
\* promise cmd returns is settled once, by the reaction.
SettledOnce ==
    [][\A c \in Calls :
          /\ calls[c].inner.st # "pending" => calls'[c].inner = calls[c].inner
          /\ calls[c].outer.st # "pending" => calls'[c].outer = calls[c].outer]_vars

\* A call on its own connection resolved, the core closed the connection, and a
\* lifecycle signal then tried to reject it (rm has no callback left by then).
SettledOnceWitness ==
    \E c \in Calls :
        /\ calls[c].op = "rm" /\ ~calls[c].session
        /\ Resolved(c) /\ calls[c].outer.val = Val("true")
        /\ closeCalls[c] = 1
        /\ calls[c].late

\* C2: the core never calls end/destroy nor connect on the caller's session,
\* whatever the calls made on it do.
SessionUntouched == closeCalls[Session] = 0 /\ connectCalls[Session] = 0

\* Two calls shared the session at the same time; one was rejected, the other
\* resolved a read stream that has since closed.
SessionUntouchedWitness ==
    \E c, d \in Calls :
        /\ c # d /\ calls[c].session /\ calls[d].session
        /\ c \notin calls[d].after /\ d \notin calls[c].after
        /\ Rejected(c)
        /\ Resolved(d) /\ calls[d].op = "createReadStream" /\ calls[d].pc = "strm_closed"

\* C3: a call without session and without persist that has settled has had its
\* connection closed, and closed by the time it settled.
ClosedAfterSettle ==
    \A c \in Calls :
        Started(c) /\ ~calls[c].session /\ ~calls[c].persist /\ Settled(c)
            => closeCalls[c] >= 1 /\ calls[c].atSettle >= 1

\* getBuffer on a connection of its own resolved and the connection was closed.
ClosedAfterSettleWitness ==
    \E c \in Calls :
        /\ calls[c].op = "getBuffer" /\ ~calls[c].session
        /\ Resolved(c) /\ closeCalls[c] = 1

\* C4: a call without session and with persist has its connection closed when it
\* rejects, and not closed at the moment it resolves.
PersistOutcome ==
    \A c \in Calls :
        Started(c) /\ ~calls[c].session /\ calls[c].persist =>
            /\ Rejected(c) => closeCalls[c] >= 1 /\ calls[c].atSettle >= 1
            /\ Resolved(c) => calls[c].atSettle = 0

\* createReadStream on a connection of its own resolved its stream with the
\* connection still open.
PersistOutcomeWitness ==
    \E c \in Calls :
        /\ calls[c].op = "createReadStream" /\ ~calls[c].session
        /\ Resolved(c) /\ calls[c].outer.val = Val("stream")
        /\ closeCalls[c] = 0

\* C5: the core closes a connection it created at most once.
ClosedAtMostOnce == \A c \in Calls : closeCalls[c] <= 1

\* C6: a failure reported to a pending call rejects it with that error.
FailureRejects ==
    \A c \in Calls :
        calls[c].fail # "none" =>
            calls[c].inner = [st |-> "rejected", val |-> Val(calls[c].fail)]

\* C7: execCmd runs the command once; unless a lifecycle signal settled the call
\* first, exit code 0 resolves true, another exit code rejects with the nonzero
\* exit error, and a failure to start rejects with the start error.
ExecOutcome ==
    \A c \in Calls :
        calls[c].op \in ExecOps =>
            /\ calls[c].execCalls = (IF calls[c].pc = "connecting" THEN 0 ELSE 1)
            /\ ~BySignal(c) /\ calls[c].exitCode = 0 =>
                   calls[c].inner = [st |-> "resolved", val |-> Val("true")]
            /\ ~BySignal(c) /\ calls[c].exitCode > 0 =>
                   calls[c].inner = [st |-> "rejected", val |-> Val("none zero exit code")]
            /\ ~BySignal(c) /\ calls[c].pc = "done" /\ calls[c].exitCode = -1 =>
                   calls[c].inner = [st |-> "rejected", val |-> Val("execError")]

\* execCmd on a connection of its own: the command exited with 2 and the call
\* was rejected with the nonzero exit error.
ExecOutcomeWitness ==
    \E c \in Calls :
        /\ calls[c].op = "execCmd" /\ ~calls[c].session
        /\ calls[c].exitCode = 2 /\ calls[c].execCalls = 1
        /\ Rejected(c) /\ calls[c].outer.val = Val("none zero exit code")

\* C8: getBuffer on a file of N > 0 bytes issues every read at file position and
\* buffer offset equal to the bytes read so far, for the bytes that remain, and
\* the buffer it resolves has the file's N bytes.
ChunkedRead ==
    \A c \in Calls :
        calls[c].op = "getBuffer" /\ Len(file) > 0 =>
            /\ calls[c].pc = "read" =>
                   calls[c].req = [off |-> calls[c].total,
                                   len |-> Len(file) - calls[c].total,
                                   pos |-> calls[c].total]
            /\ calls[c].inner.st = "resolved" =>
                   /\ Len(calls[c].inner.val.buf) = Len(file)
                   /\ calls[c].inner.val.buf = file

\* getBuffer resolved a file of two bytes that it read in two short reads.
ChunkedReadWitness ==
    \E c \in Calls :
        /\ calls[c].op = "getBuffer" /\ Len(file) = 2
        /\ calls[c].reads = 2 /\ calls[c].total = 2
        /\ Resolved(c) /\ calls[c].outer.val = BufVal(file)

\* C9: getBuffer on a file of size 0 issues no read and, unless a failure came
\* first, resolves an empty buffer from the fstat callback.
EmptyFileNoRead ==
    \A c \in Calls :
        calls[c].op = "getBuffer" /\ Len(file) = 0 =>
            /\ calls[c].reads = 0
            /\ calls[c].pc # "read"
            /\ calls[c].handle = "open" /\ calls[c].pc # "fstat" /\ calls[c].fail = "none" =>
                   calls[c].inner = [st |-> "resolved", val |-> BufVal(<<>>)]

\* getBuffer resolved the empty buffer for an empty file.
EmptyFileNoReadWitness ==
    \E c \in Calls :
        /\ calls[c].op = "getBuffer" /\ Len(file) = 0
        /\ calls[c].handle = "open" /\ calls[c].reads = 0
        /\ Resolved(c) /\ calls[c].outer.val = BufVal(<<>>)

\* C10: a getBuffer that is called after putBuffer(B) resolved, and that resolves,
\* resolves a buffer equal to B.
RoundTrip ==
    \A p, g \in Calls :
        /\ calls[p].op = "putBuffer" /\ Resolved(p)
        /\ calls[g].op = "getBuffer" /\ p \in calls[g].after /\ Resolved(g)
        => calls[g].outer.val.buf = calls[p].buffer

\* C11: when the promise of a call on a core-created connection settles, the
\* teardown decision has been carried out (closed unless persist and success),
\* and the outcome is the one that settled the inner promise.
TeardownThenOutcome ==
    \A c \in Calls :
        Started(c) /\ ~calls[c].session /\ Settled(c) =>
            /\ calls[c].outer = calls[c].inner
            /\ calls[c].atSettle >= 1 <=> (~calls[c].persist \/ calls[c].inner.st = "rejected")

\* A realpath call on its own connection failed in its callback; the caller sees
\* that error, and the connection was closed by then.
TeardownThenOutcomeWitness ==
    \E c \in Calls :
        /\ calls[c].op = "realpath" /\ ~calls[c].session
        /\ calls[c].cause = "verb"
        /\ calls[c].outer = [st |-> "rejected", val |-> Val("ioError")]
        /\ calls[c].atSettle = 1

\* C12: a call on a core-created connection whose first lifecycle signal while
\* pending is end rejects with 'Connection closed'; if it is error, with that error.
SignalRejects ==
    \A c \in Calls :
        /\ calls[c].sig = "end" =>
               calls[c].inner = [st |-> "rejected", val |-> Val("Connection closed")]
        /\ calls[c].sig = "error" =>
               calls[c].inner = [st |-> "rejected", val |-> Val("connError")]

\* The connection ended in the middle of getBuffer's read loop.
SignalRejectsWitness ==
    \E c \in Calls :
        /\ calls[c].op = "getBuffer" /\ calls[c].pc = "read" /\ calls[c].total = 1
        /\ calls[c].sig = "end"
        /\ Rejected(c) /\ calls[c].outer.val = Val("Connection closed")

\* The sub-channel of call c failed to open and no lifecycle signal had settled
\* the call; nothing may then be outstanding or open on a sub-channel.
OpenFailed(c) == calls[c].sftpFailed /\ ~BySignal(c)
NothingIssued(c) ==
    calls[c].pc = "done" /\ calls[c].io = 0 /\ calls[c].handle = "none" /\ calls[c].reads = 0

\* C13 as claimed: when opening the sub-channel fails, every SFTP operation
\* rejects with the open error and issues no call on a sub-channel.
OpenFailureOpenError ==
    \A c \in Calls :
        OpenFailed(c) =>
            /\ calls[c].inner = [st |-> "rejected", val |-> Val("sftpError")]
            /\ NothingIssued(c)

\* The error an operation rejects with when its sub-channel fails to open.
OpenFailureError(r) ==
    IF r.op = "getStream" /\ ~r.streamOk THEN "Stream must be a writable stream"
    ELSE IF r.op = "putStream" /\ ~r.streamOk THEN "Stream must be a readable stream"
    ELSE "sftpError"

\* C13: when opening the sub-channel fails, every SFTP operation rejects and
\* issues no call on a sub-channel; it rejects with the open error, except that
\* getStream and putStream given an invalid stream reject with the stream error.
OpenFailureRejects ==
    \A c \in Calls :
        OpenFailed(c) =>
            /\ calls[c].inner = [st |-> "rejected", val |-> Val(OpenFailureError(calls[c]))]
            /\ NothingIssued(c)

\* getBuffer on a connection of its own was rejected with the open error.
OpenFailureRejectsWitness ==
    \E c \in Calls :
        /\ calls[c].op = "getBuffer" /\ ~calls[c].session /\ OpenFailed(c)
        /\ Rejected(c) /\ calls[c].outer.val = Val("sftpError")
        /\ NothingIssued(c)

\* Call c runs on a Client of its own and has been started.
OwnHandle(c) == Started(c) /\ ~calls[c].session

\* C14: calls made concurrently without a session each connect one handle of
\* their own, and a step of one call (its settlement and teardown included)
\* leaves the promise and the handle of every other such call as they were; a
\* handle is closed only in a step of the call that created it.
CallsIndependent ==
    [][\A c \in Calls :
          /\ OwnHandle(c)' => connectCalls'[c] = 1
          /\ closeCalls'[c] # closeCalls[c] => calls'[c] # calls[c]
          /\ \A d \in Calls \ {c} :
                OwnHandle(c) /\ OwnHandle(d) /\ calls'[c] # calls[c] =>
                    /\ calls'[d] = calls[d]
                    /\ closeCalls'[d] = closeCalls[d]
                    /\ connectCalls'[d] = connectCalls[d]]_vars

\* Call d was started while call c was pending; c was rejected and its handle
\* closed, and d then resolved with its stream on a handle never closed.
CallsIndependentWitness ==
    \E c \in Calls : \E d \in Calls \ {c} :
        /\ OwnHandle(c) /\ OwnHandle(d)
        /\ c \notin calls[d].after /\ d \notin calls[c].after
        /\ Rejected(c) /\ closeCalls[c] = 1
        /\ calls[d].op = "createWriteStream" /\ Resolved(d)
        /\ closeCalls[d] = 0 /\ connectCalls[d] = 1

\* A step in which the read callback of getBuffer call c ran without an error:
\* it issued the next read or went on to close the file.
ReadCallbackStep(c) ==
    /\ calls[c].op = "getBuffer" /\ calls[c].pc = "read"
    /\ calls'[c].reads # calls[c].reads \/ calls'[c].pc = "close"

\* C15: at every read callback of getBuffer the remaining byte count strictly
\* decreases and does not become negative, whatever byte count the read reports
\* (0 included); the position of the next read is larger and within the size.
ReadProgress ==
    [][\A c \in Calls :
          ReadCallbackStep(c) =>
              /\ calls'[c].bytes < calls[c].bytes
              /\ calls'[c].bytes >= 0
              /\ calls'[c].pc = "read" =>
                    /\ calls'[c].req.pos > calls[c].req.pos
                    /\ calls'[c].req.pos <= Len(calls[c].buffer)]_vars

\* C16: within one getBuffer or putBuffer call at most one call on the
\* sub-channel is outstanding at any time, and a read, write or close is issued
\* only in the step that delivers the previous call's callback.
SequentialIO ==
    [][\A c \in Calls :
          calls[c].op \in BufferOps =>
              /\ calls[c].io \in {0, 1} /\ calls'[c].io \in {0, 1}
              /\ \/ calls'[c].pc = calls[c].pc /\ calls'[c].reads = calls[c].reads
                 \/ calls'[c].pc \notin {"read", "write", "close"}
                 \/ calls[c].io = 1 /\ calls[c].pc \in {"open", "fstat", "read", "write"}]_vars

\* getBuffer issued its second read from the callback of the first; only that
\* read is outstanding.
SequentialIOWitness ==
    \E c \in Calls :
        /\ calls[c].op = "getBuffer" /\ calls[c].pc = "read"
        /\ calls[c].reads = 2 /\ calls[c].io = 1 /\ calls[c].total = 1

\* C17: a read of getBuffer that reports an error ends the loop: no call is
\* outstanding or issued afterwards, the file handle stays open, the call rejects
\* with the read error (unless a lifecycle signal had settled it before), and the
\* buffer is never resolved.
ReadErrorAborts ==
    \A c \in Calls :
        calls[c].readErr =>
            /\ calls[c].pc = "done" /\ calls[c].io = 0
            /\ calls[c].handle = "open"
            /\ calls[c].inner.st = "rejected" /\ calls[c].outer.st # "resolved"
            /\ ~BySignal(c) => /\ calls[c].inner.val = Val("ioError")
                               /\ calls[c].cause = "read"

\* After one byte was read into the buffer the next read failed and the call
\* was rejected with the read error.
ReadErrorAbortsWitness ==
    \E c \in Calls :
        /\ calls[c].readErr /\ calls[c].total = 1 /\ calls[c].reads = 2
        /\ Rejected(c) /\ calls[c].outer.val = Val("ioError")

\* C18: a call made without a session whose transport signals and whose I/O
\* calls all get their callbacks eventually settles its promise.
EventuallySettles ==
    \A c \in Calls : (Started(c) /\ ~calls[c].session) ~> Settled(c)

\* C19: once createReadStream or createWriteStream resolved without a session,
\* the handle the call created is not closed while the returned stream is open,
\* and it is closed exactly when that stream has emitted close or error.
StreamOwnsHandle ==
    \A c \in Calls :
        calls[c].op \in PersistOps /\ ~calls[c].session /\ Resolved(c) =>
            /\ calls[c].atSettle = 0
            /\ calls[c].pc = "strm_ready" => closeCalls[c] = 0
            /\ closeCalls[c] >= 1 <=> calls[c].pc \in {"strm_err", "strm_closed"}

\* createWriteStream resolved with the handle open; the stream later emitted
\* close and the handle was closed.
StreamOwnsHandleWitness ==
    \E c \in Calls :
        /\ calls[c].op = "createWriteStream" /\ ~calls[c].session /\ Resolved(c)
        /\ calls[c].atSettle = 0
        /\ calls[c].pc = "strm_closed" /\ closeCalls[c] = 1

\* C20: whenever getBuffer or putBuffer resolves, the file handle it opened has
\* been closed, for every file size.
HandleClosed ==
    \A c \in Calls :
        calls[c].op \in BufferOps /\ calls[c].inner.st = "resolved" =>
            calls[c].handle = "closed"
====
